---- MODULE Spec2Model ----
(***************************************************************************)
(* SubTrack (envibagus/substrack): the subscription store of               *)
(* context/AppContext.tsx (reducer, load and save effects, actions and     *)
(* queries) together with the helpers of utils/helpers.ts it calls.        *)
(*                                                                         *)
(* Time is counted in units of 1/UnitsPerDay of a day.  A calendar date    *)
(* string "YYYY-MM-DD" is the number of its day; `new Date(dateStr)` reads *)
(* it as UTC midnight, while `setHours(0,0,0,0)` zeroes the time of day in *)
(* the local timezone, which is `tz` units ahead of UTC.                   *)
(* Numbers that the code divides are exact rationals [n, d].               *)
(***************************************************************************)
EXTENDS Integers, Sequences, FiniteSets, TLC

VARIABLES
    state,      \* AppState held by useReducer
    storage,    \* localStorage: key -> stored string
    pc,         \* position of the AppProvider in its mount sequence
    pending,    \* actions dispatched by the mount effects, not yet reduced
    now,        \* the wall clock (Date.now()), in units
    tz,         \* offset of the local timezone from UTC, in units
    failures,   \* number of setItem calls that have thrown
    lastOp,     \* the operation performed by the last step
    result,     \* value returned by the last query
    settings    \* the SettingsPage: whether it is mounted, its profile state

vars == <<state, storage, pc, pending, now, tz, failures, lastOp, result,
          settings>>

----------------------------------------------------------------------------
(* Bounds of the model *)

MaxSubs == 2        \* longest subscription list
MaxNow == 1         \* last instant of the clock
UnitsPerDay == 2    \* clock units in one day
MaxFailures == 1    \* setItem calls that throw in one behaviour
MaxQuery == 2       \* longest list a query is applied to

----------------------------------------------------------------------------
(* Values *)

Undefined == "undefined"
Null == "null"

STORAGE_KEY == "subtrack_subscriptions"
CURRENCY_STORAGE_KEY == "subtrack-currency"
PROFILE_STORAGE_KEY == "subtrack-profile"
Keys == {STORAGE_KEY, CURRENCY_STORAGE_KEY, PROFILE_STORAGE_KEY}

\* localStorage.getItem returns null for an absent key, else the string.
Absent == [kind |-> "absent"]
Garbage == [kind |-> "garbage"]            \* a string that is not JSON
Raw(s) == [kind |-> "raw", val |-> s]      \* a plain string

\* { ...a, ...b }
Spread(a, b) ==
    [f \in DOMAIN a \cup DOMAIN b |-> IF f \in DOMAIN b THEN b[f] ELSE a[f]]

\* the optional string properties of Subscription, which may be undefined
OptionalFields == {"description", "currency", "logoUrl", "paymentMethod",
                   "notes", "freeTrialEndDate", "url", "list"}

\* JSON.stringify drops the properties whose value is undefined
StripUndefined(obj) ==
    [f \in {g \in DOMAIN obj :
                ~(g \in OptionalFields /\ obj[g] = Undefined)} |-> obj[f]]

StringifyList(list) ==
    [kind |-> "json", shape |-> "array",
     val |-> [i \in DOMAIN list |-> StripUndefined(list[i])]]

StringifyObject(obj) ==
    [kind |-> "json", shape |-> "object", val |-> StripUndefined(obj)]

\* JSON.parse throws on a string that is not JSON
ParseThrows(s) == s.kind # "json"
JSONparse(s) == s.val

\* `if (stored)`: null and the empty string are falsy
Truthy(s) == s.kind # "absent" /\ ~(s.kind = "raw" /\ s.val = "")

----------------------------------------------------------------------------
(* Dates *)

\* Math.abs
Abs(x) == IF x < 0 THEN -x ELSE x

\* new Date("YYYY-MM-DD").getTime(): UTC midnight of that day
ParseDate(day) == day * UnitsPerDay

\* d.setHours(0, 0, 0, 0): the local midnight at or before instant t
SetHoursZero(t) == ((t + tz) \div UnitsPerDay) * UnitsPerDay - tz

\* d.setDate(d.getDate() + days)
AddDays(t, days) == t + days * UnitsPerDay

\* the local calendar day of instant t
LocalDay(t) == (t + tz) \div UnitsPerDay

\* Math.ceil(diffTime / (1000 * 60 * 60 * 24))
CeilDays(diffTime) == -((-diffTime) \div UnitsPerDay)

\* getDaysUntilDue(dateStr) of utils/helpers.ts, called at instant t
getDaysUntilDue(dateStr, t) ==
    LET today == SetHoursZero(t)
        dueDate == SetHoursZero(ParseDate(dateStr))
        diffTime == dueDate - today
    IN CeilDays(diffTime)

\* formatDate(dateStr): Intl.DateTimeFormat prints the local calendar day
\* of the instant new Date(dateStr)
formatDate(dateStr) == [text |-> "date", n |-> LocalDay(ParseDate(dateStr))]

\* formatRelativeDate(dateStr) of utils/helpers.ts, called at instant t
formatRelativeDate(dateStr, t) ==
    LET date == ParseDate(dateStr)
        today == SetHoursZero(t)
        targetDate == SetHoursZero(date)
        diffTime == targetDate - today
        diffDays == CeilDays(diffTime)
    IN CASE diffDays = 0 -> [text |-> "Today", n |-> 0]
         [] diffDays = 1 -> [text |-> "Tomorrow", n |-> 0]
         [] diffDays = -1 -> [text |-> "Yesterday", n |-> 0]
         [] diffDays < -1 -> [text |-> "days ago", n |-> Abs(diffDays)]
         [] diffDays > 1 /\ diffDays <= 7 -> [text |-> "in days", n |-> diffDays]
         [] OTHER -> formatDate(dateStr)

----------------------------------------------------------------------------
(* Numbers: exact rationals n/d with d > 0, in lowest terms *)

RECURSIVE GCD(_, _)
GCD(a, b) == IF b = 0 THEN a ELSE GCD(b, a % b)

Rat(n, d) ==
    LET g == GCD(Abs(n), Abs(d))
        sgn == IF d < 0 THEN -1 ELSE 1
    IN [n |-> sgn * (n \div g), d |-> sgn * (d \div g)]

Num(k) == [n |-> k, d |-> 1]

\* NaN, which every arithmetic operation on it yields again
NaN == [n |-> 0, d |-> 0]
IsNaN(x) == x.d = 0

RatAdd(x, y) ==
    IF IsNaN(x) \/ IsNaN(y) THEN NaN
    ELSE Rat(x.n * y.d + y.n * x.d, x.d * y.d)
RatMul(x, y) ==
    IF IsNaN(x) \/ IsNaN(y) THEN NaN
    ELSE Rat(x.n * y.n, x.d * y.d)
RatDiv(x, y) ==
    IF IsNaN(x) \/ IsNaN(y) \/ y.n = 0 THEN NaN
    ELSE Rat(x.n * y.d, x.d * y.n)

\* a variant of getMonthlyCost that takes a month for four weeks
getMonthlyCost_FourWeeks(cost, billingCycle) ==
    CASE billingCycle = "weekly" -> RatMul(cost, Num(4))
      [] billingCycle = "monthly" -> cost
      [] billingCycle = "quarterly" -> RatDiv(RatMul(cost, Num(4)), Num(12))
      [] billingCycle = "yearly" -> RatDiv(cost, Num(12))
      [] OTHER -> cost

\* getMonthlyCost(cost, billingCycle) of utils/helpers.ts
getMonthlyCost(cost, billingCycle) ==
    CASE billingCycle = "weekly" -> RatDiv(RatMul(cost, Num(52)), Num(12))
      [] billingCycle = "monthly" -> cost
      [] billingCycle = "quarterly" -> RatDiv(RatMul(cost, Num(4)), Num(12))
      [] billingCycle = "yearly" -> RatDiv(cost, Num(12))
      [] OTHER -> cost

\* EXCHANGE_RATES of utils/helpers.ts (base: USD)
EXCHANGE_RATES ==
    [USD |-> Num(1), IDR |-> Num(15600), EUR |-> Rat(92, 100),
     GBP |-> Rat(79, 100), JPY |-> Rat(14950, 100), SGD |-> Rat(134, 100),
     AUD |-> Rat(153, 100), CAD |-> Rat(136, 100)]

\* the property names EXCHANGE_RATES, an object literal, inherits from
\* Object.prototype; their values are functions or objects, which are
\* truthy and convert to the number NaN
ObjectPrototypeKeys ==
    {"constructor", "toString", "valueOf", "hasOwnProperty", "__proto__"}

\* EXCHANGE_RATES[code] || 1
RateOr1(code) ==
    IF code \in DOMAIN EXCHANGE_RATES
    THEN IF EXCHANGE_RATES[code].n # 0 THEN EXCHANGE_RATES[code] ELSE Num(1)
    ELSE IF code \in ObjectPrototypeKeys THEN NaN
    ELSE Num(1)

\* a variant of convertCurrency that rounds to whole units, Math.round
convertCurrency_Rounded(amount, fromCurrency, toCurrency) ==
    IF fromCurrency = toCurrency THEN amount
    ELSE LET fromRate == RateOr1(fromCurrency)
             toRate == RateOr1(toCurrency)
             inUSD == RatDiv(amount, fromRate)
             exact == RatMul(inUSD, toRate)
         IN IF IsNaN(exact) THEN NaN
            ELSE Num((2 * exact.n + exact.d) \div (2 * exact.d))

\* a variant of convertCurrency that always returns the amount in USD
convertCurrency_ToUSD(amount, fromCurrency, toCurrency) ==
    RatDiv(amount, RateOr1(fromCurrency))

\* convertCurrency(amount, fromCurrency, toCurrency) of utils/helpers.ts
convertCurrency(amount, fromCurrency, toCurrency) ==
    IF fromCurrency = toCurrency THEN amount
    ELSE LET fromRate == RateOr1(fromCurrency)
             toRate == RateOr1(toCurrency)
             inUSD == RatDiv(amount, fromRate)
         IN RatMul(inUSD, toRate)

----------------------------------------------------------------------------
(* Inputs *)

Profiles ==
    { [username |-> "User", picture |-> Null],
      [username |-> "Ann", picture |-> "data:image" ] }

Currencies == {"IDR", "USD"}

\* the suffixes Math.random().toString(36).substr(2, 9) yields
RandomSuffixes == {0, 1}

\* offsets of the local timezone: behind UTC, UTC, ahead of UTC
Timezones == {-1, 0, 1}

\* Omit<Subscription, 'id' | 'createdAt' | 'updatedAt'>
Netflix ==
    [name |-> "Netflix", cost |-> 15, billingCycle |-> "monthly",
     category |-> "entertainment", startDate |-> 0, nextBillDate |-> 1,
     isActive |-> TRUE, logoUrl |-> Undefined]

News ==
    [name |-> "News", cost |-> 3, billingCycle |-> "weekly",
     category |-> "other", startDate |-> 0, nextBillDate |-> 1,
     isActive |-> FALSE, currency |-> "USD"]

AddInputs == {Netflix}

\* arguments of the helpers: amounts, billing cycles (one that is not a
\* BillingCycle) and currency codes (two that are not in EXCHANGE_RATES)
Amounts == {0, 3, 15, 120}
BillingCycles == {"weekly", "monthly", "quarterly", "yearly", "daily"}
CurrencyCodes == {"USD", "IDR", "EUR", "XXX", "constructor"}

\* date strings, from six days before day 0 to nine days after it
DateStrings == -6 .. 9

\* action types that are not of AppAction
UnrecognisedTypes == {"CLEAR_ALL"}

\* an id of the form `sub-${Date.now()}-${random}`
MakeId(t, r) == <<t, r>>

\* an id that no record carries
UnknownId == MakeId(-2, 0)

\* a record saved by an earlier session
StoredSub ==
    [id |-> MakeId(-1, 0), name |-> "Spotify", cost |-> 5,
     billingCycle |-> "monthly", category |-> "music", startDate |-> -1,
     nextBillDate |-> 1, isActive |-> TRUE, currency |-> "IDR",
     createdAt |-> -1, updatedAt |-> -1]

Ids(list) == {list[i].id : i \in DOMAIN list}

\* Partial<Subscription>: a change of a field that carries a timestamp of
\* its own, and the changes of the id to the id of a later record of the list
Updates(list) ==
    { [isActive |-> FALSE, updatedAt |-> -5] }
        \cup { [id |-> list[i].id] : i \in DOMAIN list \ {1} }

----------------------------------------------------------------------------
(* The reducer *)

\* a variant of initialState whose currency is "USD"
initialState_USD ==
    [subscriptions |-> <<>>, currency |-> "USD", isLoading |-> TRUE,
     error |-> Null, profile |-> [username |-> "User", picture |-> Null]]

initialState ==
    [subscriptions |-> <<>>, currency |-> "IDR", isLoading |-> TRUE,
     error |-> Null, profile |-> [username |-> "User", picture |-> Null]]

\* a variant of ADD_SUBSCRIPTION that places the new record first
ADD_SUBSCRIPTION_Prepend(subscriptions, payload) ==
    <<payload>> \o subscriptions

\* case 'ADD_SUBSCRIPTION': [...state.subscriptions, action.payload]
ADD_SUBSCRIPTION(subscriptions, payload) == Append(subscriptions, payload)

\* a variant of UPDATE_SUBSCRIPTION that refreshes updatedAt on every record
UPDATE_SUBSCRIPTION_RefreshAll(subscriptions, payload, t) ==
    [i \in DOMAIN subscriptions |->
        LET sub == subscriptions[i]
        IN IF sub.id = payload.id
           THEN Spread(Spread(sub, payload.updates), [updatedAt |-> t])
           ELSE Spread(sub, [updatedAt |-> t])]

\* a variant of UPDATE_SUBSCRIPTION that spreads the updates last
UPDATE_SUBSCRIPTION_StampFirst(subscriptions, payload, t) ==
    [i \in DOMAIN subscriptions |->
        LET sub == subscriptions[i]
        IN IF sub.id = payload.id
           THEN Spread(Spread(sub, [updatedAt |-> t]), payload.updates)
           ELSE sub]

\* case 'UPDATE_SUBSCRIPTION': state.subscriptions.map(...); t is the
\* instant of `new Date()`
UPDATE_SUBSCRIPTION(subscriptions, payload, t) ==
    [i \in DOMAIN subscriptions |->
        LET sub == subscriptions[i]
        IN IF sub.id = payload.id
           THEN Spread(Spread(sub, payload.updates), [updatedAt |-> t])
           ELSE sub]

\* a variant of DELETE_SUBSCRIPTION that also drops the records after the
\* first match
DELETE_SUBSCRIPTION_Truncating(subscriptions, payload) ==
    LET matches == {i \in DOMAIN subscriptions : subscriptions[i].id = payload}
    IN IF matches = {} THEN subscriptions
       ELSE SubSeq(subscriptions, 1,
                   (CHOOSE i \in matches : \A j \in matches : i <= j) - 1)

\* case 'DELETE_SUBSCRIPTION': state.subscriptions.filter(...)
DELETE_SUBSCRIPTION(subscriptions, payload) ==
    LET Keep(sub) == sub.id # payload
    IN SelectSeq(subscriptions, Keep)

\* a variant of DefaultCase that returns the initial state
DefaultCase_Reset(s) == initialState

\* default: return state
DefaultCase(s) == s

\* a variant of SET_CURRENCY that also restates every record in the new
\* currency
SET_CURRENCY_Retroactive(s, payload) ==
    [s EXCEPT !.currency = payload,
              !.subscriptions =
                  [i \in DOMAIN @ |-> Spread(@[i], [currency |-> payload])]]

\* case 'SET_CURRENCY': { ...state, currency: action.payload }
SET_CURRENCY(s, payload) == [s EXCEPT !.currency = payload]

\* appReducer(state, action)
appReducer(s, action, t) ==
    CASE action.type = "SET_SUBSCRIPTIONS" ->
            [s EXCEPT !.subscriptions = action.payload, !.isLoading = FALSE]
      [] action.type = "ADD_SUBSCRIPTION" ->
            [s EXCEPT !.subscriptions = ADD_SUBSCRIPTION(@, action.payload)]
      [] action.type = "UPDATE_SUBSCRIPTION" ->
            [s EXCEPT !.subscriptions =
                          UPDATE_SUBSCRIPTION(@, action.payload, t)]
      [] action.type = "DELETE_SUBSCRIPTION" ->
            [s EXCEPT !.subscriptions = DELETE_SUBSCRIPTION(@, action.payload)]
      [] action.type = "SET_LOADING" ->
            [s EXCEPT !.isLoading = action.payload]
      [] action.type = "SET_ERROR" ->
            [s EXCEPT !.error = action.payload, !.isLoading = FALSE]
      [] action.type = "SET_CURRENCY" -> SET_CURRENCY(s, action.payload)
      [] action.type = "SET_PROFILE" ->
            [s EXCEPT !.profile = action.payload]
      [] OTHER -> DefaultCase(s)

RECURSIVE ReduceAll(_, _, _)
ReduceAll(s, actions, t) ==
    IF actions = <<>> THEN s
    ELSE ReduceAll(appReducer(s, Head(actions), t), Tail(actions), t)

----------------------------------------------------------------------------
(* localStorage *)

\* a call localStorage.setItem(key, value)
SetItem(key, value) == [key |-> key, value |-> value]

\* variants of SaveSubscriptionsEffect: one without the guard on the
\* length, one whose guard is off by one
SaveSubscriptionsEffect_Unguarded(s) ==
    <<SetItem(STORAGE_KEY, StringifyList(s.subscriptions))>>

SaveSubscriptionsEffect_OffByOne(s) ==
    IF Len(s.subscriptions) > 1
    THEN <<SetItem(STORAGE_KEY, StringifyList(s.subscriptions))>>
    ELSE <<>>

\* The three save effects of AppProvider: the setItem calls each makes when
\* it runs, which is after a render in which its dependency has changed.
SaveSubscriptionsEffect(s) ==
    IF Len(s.subscriptions) > 0
    THEN <<SetItem(STORAGE_KEY, StringifyList(s.subscriptions))>>
    ELSE <<>>

SaveCurrencyEffect(s) == <<SetItem(CURRENCY_STORAGE_KEY, Raw(s.currency))>>

SaveProfileEffect(s) ==
    <<SetItem(PROFILE_STORAGE_KEY, StringifyObject(s.profile))>>

\* changed: the keys whose dependency changed in the render
SaveEffects(s, changed) ==
    (IF STORAGE_KEY \in changed THEN SaveSubscriptionsEffect(s) ELSE <<>>)
    \o (IF CURRENCY_STORAGE_KEY \in changed
        THEN SaveCurrencyEffect(s) ELSE <<>>)
    \o (IF PROFILE_STORAGE_KEY \in changed
        THEN SaveProfileEffect(s) ELSE <<>>)

\* the outcomes of the calls: ok[i] is FALSE when call i throws (quota
\* exceeded, storage disabled); the effect catches and logs it
Thrown(ok) == Cardinality({i \in DOMAIN ok : ~ok[i]})

OkChoices(calls) ==
    {ok \in [DOMAIN calls -> BOOLEAN] : failures + Thrown(ok) <= MaxFailures}

\* localStorage after the calls (each key is written at most once)
Store(st, calls, ok) ==
    [k \in Keys |->
        IF \E i \in DOMAIN calls : calls[i].key = k /\ ok[i]
        THEN (CHOOSE c \in {calls[i] : i \in {j \in DOMAIN calls : ok[j]}} :
                  c.key = k).value
        ELSE st[k]]

\* the record of the calls kept in lastOp
Writes(calls, ok) ==
    [i \in DOMAIN calls |->
        [key |-> calls[i].key, value |-> calls[i].value, ok |-> ok[i]]]

----------------------------------------------------------------------------
(* Mount of AppProvider *)

NoOp == [op |-> "none", id |-> UnknownId, arg |-> Null, writes |-> <<>>]
NoResult == <<>>

\* arg: the payload of the action dispatched, the argument of a query or,
\* in the steps of the mount, the strings getItem returned to the load effects
\* id: the id the operation is about; in a reload and the steps of the mount
\* that follows it, the id of the record whose deletion, saved without a
\* throw, was the last operation before the reload
Op(name, id, arg, writes) ==
    [op |-> name, id |-> id, arg |-> arg, writes |-> writes]

\* a variant of loadSubscriptions whose catch block only logs
loadSubscriptions_SilentCatch(st) ==
    LET stored == st[STORAGE_KEY]
    IN IF Truthy(stored)
       THEN IF ParseThrows(stored)
            THEN <<>>
            ELSE <<[type |-> "SET_SUBSCRIPTIONS",
                    payload |-> JSONparse(stored)]>>
       ELSE <<[type |-> "SET_SUBSCRIPTIONS", payload |-> <<>>]>>

loadSubscriptions(st) ==
    LET stored == st[STORAGE_KEY]
    IN IF Truthy(stored)
       THEN IF ParseThrows(stored)
            THEN <<[type |-> "SET_ERROR",
                    payload |-> "Failed to load subscriptions"]>>
            ELSE <<[type |-> "SET_SUBSCRIPTIONS",
                    payload |-> JSONparse(stored)]>>
       ELSE <<[type |-> "SET_SUBSCRIPTIONS", payload |-> <<>>]>>

loadCurrency(st) ==
    LET storedCurrency == st[CURRENCY_STORAGE_KEY]
    IN IF Truthy(storedCurrency)
       THEN <<[type |-> "SET_CURRENCY", payload |-> storedCurrency.val]>>
       ELSE <<>>

\* a variant of loadProfile that shares the try block of loadSubscriptions
loadProfile_SharedTry(st) ==
    LET storedProfile == st[PROFILE_STORAGE_KEY]
    IN IF /\ Truthy(storedProfile) /\ ~ParseThrows(storedProfile)
          /\ ~(Truthy(st[STORAGE_KEY]) /\ ParseThrows(st[STORAGE_KEY]))
       THEN <<[type |-> "SET_PROFILE", payload |-> JSONparse(storedProfile)]>>
       ELSE <<>>

loadProfile(st) ==
    LET storedProfile == st[PROFILE_STORAGE_KEY]
    IN IF Truthy(storedProfile) /\ ~ParseThrows(storedProfile)
       THEN <<[type |-> "SET_PROFILE", payload |-> JSONparse(storedProfile)]>>
       ELSE <<>>

\* the three load effects of the mount commit: read, then dispatch
MountLoadEffects ==
    /\ pc = "mount"
    /\ pending' = loadSubscriptions(storage) \o loadCurrency(storage)
                      \o loadProfile(storage)
    /\ pc' = "mounted"
    /\ lastOp' = [NoOp EXCEPT !.op = "load", !.arg = storage,
                              !.id = lastOp.id]
    /\ result' = NoResult
    /\ UNCHANGED <<state, storage, now, tz, failures, settings>>

\* the three save effects of the mount commit, run on the initial state
MountSaveEffects ==
    /\ pc = "mounted"
    /\ LET calls == SaveEffects(state, Keys)
       IN \E ok \in OkChoices(calls) :
           /\ storage' = Store(storage, calls, ok)
           /\ failures' = failures + Thrown(ok)
           /\ lastOp' = Op("mountSave", lastOp.id, lastOp.arg,
                           Writes(calls, ok))
    /\ pc' = "render"
    /\ result' = NoResult
    /\ UNCHANGED <<state, pending, now, tz, settings>>

HasAction(actions, type) == \E i \in DOMAIN actions : actions[i].type = type

\* the render that reduces the dispatched actions, and its save effects
Render ==
    /\ pc = "render"
    /\ LET s == ReduceAll(state, pending, now)
           changed ==
               {k \in Keys :
                   \/ k = STORAGE_KEY /\ HasAction(pending, "SET_SUBSCRIPTIONS")
                   \/ k = CURRENCY_STORAGE_KEY /\ s.currency # state.currency
                   \/ k = PROFILE_STORAGE_KEY /\ HasAction(pending, "SET_PROFILE")}
           calls == SaveEffects(s, changed)
       IN \E ok \in OkChoices(calls) :
           /\ state' = s
           /\ storage' = Store(storage, calls, ok)
           /\ failures' = failures + Thrown(ok)
           /\ lastOp' = Op("render", lastOp.id, lastOp.arg,
                           Writes(calls, ok))
    /\ pending' = <<>>
    /\ pc' = "ready"
    /\ result' = NoResult
    /\ UNCHANGED <<now, tz, settings>>

\* window.location.reload(): the provider mounts again on the same storage
Reload ==
    /\ pc = "ready"
    /\ state' = initialState
    /\ pending' = <<>>
    /\ pc' = "mount"
    /\ lastOp' = [NoOp EXCEPT
                      !.op = "reload",
                      !.id = IF /\ lastOp.op = "delete"
                                /\ \A i \in DOMAIN lastOp.writes :
                                      lastOp.writes[i].ok
                             THEN lastOp.id ELSE UnknownId]
    /\ result' = NoResult
    /\ UNCHANGED <<storage, now, tz, failures, settings>>

----------------------------------------------------------------------------
(* Actions of the store *)

\* a variant of Dispatch that undoes the change when a setItem call throws
Dispatch_Rollback(name, id, action, changed) ==
    LET s == appReducer(state, action, now)
        calls == SaveEffects(s, changed)
    IN \E ok \in OkChoices(calls) :
        /\ state' = IF Thrown(ok) = 0 THEN s ELSE state
        /\ storage' = Store(storage, calls, ok)
        /\ failures' = failures + Thrown(ok)
        /\ lastOp' = Op(name, id, action.payload, Writes(calls, ok))
        /\ result' = NoResult
        /\ UNCHANGED <<pc, pending, now, tz, settings>>

\* dispatch(action), the render it causes and the save effects of the render
\* changed: the keys of the save effects whose dependency the action changes
Dispatch(name, id, action, changed) ==
    LET s == appReducer(state, action, now)
        calls == SaveEffects(s, changed)
    IN \E ok \in OkChoices(calls) :
        /\ state' = s
        /\ storage' = Store(storage, calls, ok)
        /\ failures' = failures + Thrown(ok)
        /\ lastOp' = Op(name, id, action.payload, Writes(calls, ok))
        /\ result' = NoResult
        /\ UNCHANGED <<pc, pending, now, tz, settings>>

NewSubscription(subscription, t, r) ==
    Spread(subscription,
           [id |-> MakeId(t, r), createdAt |-> t, updatedAt |-> t])

addSubscription(subscription, r) ==
    /\ pc = "ready"
    /\ Len(state.subscriptions) < MaxSubs
    /\ LET newSubscription == NewSubscription(subscription, now, r)
       IN Dispatch("add", newSubscription.id,
                   [type |-> "ADD_SUBSCRIPTION", payload |-> newSubscription],
                   {STORAGE_KEY})

updateSubscription(id, updates) ==
    /\ pc = "ready"
    /\ Dispatch("update", id,
                [type |-> "UPDATE_SUBSCRIPTION",
                 payload |-> [id |-> id, updates |-> updates]],
                {STORAGE_KEY})

deleteSubscription(id) ==
    /\ pc = "ready"
    /\ Dispatch("delete", id,
                [type |-> "DELETE_SUBSCRIPTION", payload |-> id],
                {STORAGE_KEY})

\* onMarkCancelled of the Dashboard, the handler of both buttons of the
\* detail modal: actions.updateSubscription(id, { isActive: false })
onMarkCancelled(name, id) ==
    Dispatch(name, id,
             [type |-> "UPDATE_SUBSCRIPTION",
              payload |-> [id |-> id, updates |-> [isActive |-> FALSE]]],
             {STORAGE_KEY})

\* the detail modal, given the record i of the store as its subscription:
\* subscription.isActive renders the button "Mark as Cancelled"
MarkAsCancelled(i) ==
    /\ pc = "ready"
    /\ i \in DOMAIN state.subscriptions
    /\ state.subscriptions[i].isActive
    /\ onMarkCancelled("markAsCancelled", state.subscriptions[i].id)

\* the same modal given a record that is not active: it renders the button
\* "Reactivate Subscription", with the same onClick
ReactivateSubscription(i) ==
    /\ pc = "ready"
    /\ i \in DOMAIN state.subscriptions
    /\ ~state.subscriptions[i].isActive
    /\ onMarkCancelled("reactivateSubscription", state.subscriptions[i].id)

setCurrency(currency) ==
    /\ pc = "ready"
    /\ Dispatch("setCurrency", UnknownId,
                [type |-> "SET_CURRENCY", payload |-> currency],
                IF currency # state.currency
                THEN {CURRENCY_STORAGE_KEY} ELSE {})

\* the payload is a new object, so the profile dependency always changes
setProfile(profile) ==
    /\ pc = "ready"
    /\ Dispatch("setProfile", UnknownId,
                [type |-> "SET_PROFILE", payload |-> profile],
                {PROFILE_STORAGE_KEY})

\* dispatch, which the context exposes, called with an action whose type the
\* reducer does not know: the reducer returns the state object it was given,
\* so React renders nothing and runs no effect
dispatchUnrecognised(type) ==
    /\ pc = "ready"
    /\ Dispatch("dispatch", UnknownId, [type |-> type, payload |-> Null], {})

\* time passes
Tick ==
    /\ pc = "ready"
    /\ now < MaxNow
    /\ now' = now + 1
    /\ lastOp' = [NoOp EXCEPT !.op = "tick"]
    /\ result' = NoResult
    /\ UNCHANGED <<state, storage, pc, pending, tz, failures, settings>>

----------------------------------------------------------------------------
(* SettingsPage *)

\* useState<ProfileData>({ username: 'User', picture: null }) of a page that
\* is not mounted
SettingsClosed ==
    [mounted |-> FALSE, profile |-> [username |-> "User", picture |-> Null]]

\* the page's save-profile effect, which has no try/catch
SettingsSaveProfile(profile) ==
    SetItem(PROFILE_STORAGE_KEY, StringifyObject(profile))

\* setProfile of the page's useState, the render it causes and the save
\* effect of the render; the store's state is not touched
SettingsSetProfile(name, profile) ==
    LET calls == <<SettingsSaveProfile(profile)>>
        ok == [i \in DOMAIN calls |-> TRUE]
    IN /\ settings' = [settings EXCEPT !.profile = profile]
       /\ storage' = Store(storage, calls, ok)
       /\ lastOp' = Op(name, UnknownId, profile, Writes(calls, ok))
       /\ result' = NoResult
       /\ UNCHANGED <<state, pc, pending, now, tz, failures>>

\* the page is shown: its mount commit runs the load effect, which reads the
\* key and sets the profile state, and the save effect on the initial
\* profile state; the render that follows saves the profile that was read
OpenSettings ==
    /\ pc = "ready"
    /\ ~settings.mounted
    /\ LET savedProfile == storage[PROFILE_STORAGE_KEY]
           profile == IF Truthy(savedProfile) /\ ~ParseThrows(savedProfile)
                      THEN JSONparse(savedProfile)
                      ELSE SettingsClosed.profile
           calls == <<SettingsSaveProfile(SettingsClosed.profile)>>
                    \o (IF Truthy(savedProfile) /\ ~ParseThrows(savedProfile)
                        THEN <<SettingsSaveProfile(profile)>> ELSE <<>>)
           ok == [i \in DOMAIN calls |-> TRUE]
       IN /\ settings' = [mounted |-> TRUE, profile |-> profile]
          /\ storage' = [storage EXCEPT ![PROFILE_STORAGE_KEY] =
                                            StringifyObject(profile)]
          /\ lastOp' = Op("openSettings", UnknownId, Null, Writes(calls, ok))
    /\ result' = NoResult
    /\ UNCHANGED <<state, pc, pending, now, tz, failures>>

\* onBack: the page is unmounted and its state is gone
CloseSettings ==
    /\ settings.mounted
    /\ settings' = SettingsClosed
    /\ lastOp' = [NoOp EXCEPT !.op = "closeSettings"]
    /\ result' = NoResult
    /\ UNCHANGED <<state, storage, pc, pending, now, tz, failures>>

\* handleUsernameSave with the trimmed input editUsername
handleUsernameSave(editUsername) ==
    /\ settings.mounted
    /\ editUsername # ""
    /\ SettingsSetProfile("handleUsernameSave",
                          [settings.profile EXCEPT !.username = editUsername])

\* handleProfilePictureChange with the data URL the FileReader has read
handleProfilePictureChange(picture) ==
    /\ settings.mounted
    /\ SettingsSetProfile("handleProfilePictureChange",
                          [settings.profile EXCEPT !.picture = picture])

----------------------------------------------------------------------------
(* Queries of the store *)

\* a variant of InsertByDate whose comparator is dateB - dateA
RECURSIVE InsertByDate_Descending(_, _)
InsertByDate_Descending(sorted, sub) ==
    IF sorted = <<>> THEN <<sub>>
    ELSE IF ParseDate(Head(sorted).nextBillDate) - ParseDate(sub.nextBillDate) < 0
         THEN <<sub>> \o sorted
         ELSE <<Head(sorted)>> \o InsertByDate_Descending(Tail(sorted), sub)

\* list.sort((a, b) => new Date(a.nextBillDate) - new Date(b.nextBillDate)):
\* Array.prototype.sort is stable
RECURSIVE InsertByDate(_, _)
InsertByDate(sorted, sub) ==
    IF sorted = <<>> THEN <<sub>>
    ELSE IF ParseDate(sub.nextBillDate) - ParseDate(Head(sorted).nextBillDate) < 0
         THEN <<sub>> \o sorted
         ELSE <<Head(sorted)>> \o InsertByDate(Tail(sorted), sub)

RECURSIVE SortByDate(_)
SortByDate(list) ==
    IF list = <<>> THEN <<>>
    ELSE InsertByDate(SortByDate(SubSeq(list, 1, Len(list) - 1)),
                      list[Len(list)])

\* actions.getUpcomingSubscriptions(days) called at instant t: the value it
\* returns, and state.subscriptions after the call (filter makes a new
\* array, which sort then orders in place)
getUpcomingSubscriptions(s, t, days) ==
    LET today == SetHoursZero(t)
        futureDate == AddDays(today, days)
        InWindow(sub) ==
            LET billDate == ParseDate(sub.nextBillDate)
            IN billDate >= today /\ billDate <= futureDate
        filtered == SelectSeq(s.subscriptions, InWindow)
    IN [returned |-> SortByDate(filtered), subscriptions |-> s.subscriptions]

\* list.reduce((total, sub) =>
\*     total + getMonthlyCost(sub.cost, sub.billingCycle), total)
RECURSIVE ReduceMonthlyCost(_, _)
ReduceMonthlyCost(list, total) ==
    IF list = <<>> THEN total
    ELSE LET sub == Head(list)
         IN ReduceMonthlyCost(
                Tail(list),
                RatAdd(total, getMonthlyCost(Num(sub.cost), sub.billingCycle)))

\* a variant of getTotalMonthlySpend without the filter on isActive
getTotalMonthlySpend_Unfiltered(s) ==
    ReduceMonthlyCost(s.subscriptions, Num(0))

\* actions.getTotalMonthlySpend()
getTotalMonthlySpend(s) ==
    LET IsActive(sub) == sub.isActive
    IN ReduceMonthlyCost(SelectSeq(s.subscriptions, IsActive), Num(0))

\* activeSubscriptions.reduce((total, sub) => ..., total) of the Dashboard:
\* a record is converted when its currency is truthy and differs from the
\* active currency
RECURSIVE ReduceConverted(_, _, _)
ReduceConverted(list, currency, total) ==
    IF list = <<>> THEN total
    ELSE LET sub == Head(list)
             monthlyCost == getMonthlyCost(Num(sub.cost), sub.billingCycle)
         IN ReduceConverted(
                Tail(list), currency,
                IF "currency" \in DOMAIN sub /\ sub.currency # ""
                   /\ sub.currency # currency
                THEN RatAdd(total, convertCurrency(monthlyCost, sub.currency,
                                                  currency))
                ELSE RatAdd(total, monthlyCost))

\* a variant of totalMonthlySpend that converts no record
totalMonthlySpend_Unconverted(s) ==
    LET IsActive(sub) == sub.isActive
    IN ReduceMonthlyCost(SelectSeq(s.subscriptions, IsActive), Num(0))

\* totalMonthlySpend of the Dashboard
totalMonthlySpend(s) ==
    LET IsActive(sub) == sub.isActive
    IN ReduceConverted(SelectSeq(s.subscriptions, IsActive), s.currency,
                       Num(0))

\* a render of the Dashboard computes its monthly total
DashboardTotalMonthlySpend ==
    /\ pc = "ready"
    /\ result' = totalMonthlySpend(state)
    /\ lastOp' = [NoOp EXCEPT !.op = "totalMonthlySpend"]
    /\ UNCHANGED <<state, storage, pc, pending, now, tz, failures, settings>>

GetUpcomingSubscriptions(days) ==
    /\ pc = "ready"
    /\ LET call == getUpcomingSubscriptions(state, now, days)
       IN /\ result' = call.returned
          /\ state' = [state EXCEPT !.subscriptions = call.subscriptions]
    /\ lastOp' = [NoOp EXCEPT !.op = "getUpcomingSubscriptions", !.arg = days]
    /\ UNCHANGED <<storage, pc, pending, now, tz, failures, settings>>

GetTotalMonthlySpend ==
    /\ pc = "ready"
    /\ result' = getTotalMonthlySpend(state)
    /\ lastOp' = [NoOp EXCEPT !.op = "getTotalMonthlySpend"]
    /\ UNCHANGED <<state, storage, pc, pending, now, tz, failures, settings>>

\* the helpers of utils/helpers.ts, as the components call them
GetMonthlyCost(cost, billingCycle) ==
    /\ pc = "ready"
    /\ result' = getMonthlyCost(Num(cost), billingCycle)
    /\ lastOp' = [NoOp EXCEPT !.op = "getMonthlyCost",
                              !.arg = [cost |-> cost,
                                       billingCycle |-> billingCycle]]
    /\ UNCHANGED <<state, storage, pc, pending, now, tz, failures, settings>>

ConvertCurrency(amount, fromCurrency, toCurrency) ==
    /\ pc = "ready"
    /\ result' = convertCurrency(Num(amount), fromCurrency, toCurrency)
    /\ lastOp' = [NoOp EXCEPT !.op = "convertCurrency",
                              !.arg = [amount |-> amount,
                                       fromCurrency |-> fromCurrency,
                                       toCurrency |-> toCurrency]]
    /\ UNCHANGED <<state, storage, pc, pending, now, tz, failures, settings>>

GetDaysUntilDue(dateStr) ==
    /\ pc = "ready"
    /\ result' = getDaysUntilDue(dateStr, now)
    /\ lastOp' = [NoOp EXCEPT !.op = "getDaysUntilDue", !.arg = dateStr]
    /\ UNCHANGED <<state, storage, pc, pending, now, tz, failures, settings>>

FormatRelativeDate(dateStr) ==
    /\ pc = "ready"
    /\ result' = formatRelativeDate(dateStr, now)
    /\ lastOp' = [NoOp EXCEPT !.op = "formatRelativeDate", !.arg = dateStr]
    /\ UNCHANGED <<state, storage, pc, pending, now, tz, failures, settings>>

\* the conversion back: convertCurrency applied to the value the last
\* conversion returned, with the two codes exchanged
ConvertBack ==
    /\ pc = "ready"
    /\ lastOp.op = "convertCurrency"
    /\ result' = convertCurrency(result, lastOp.arg.toCurrency,
                                 lastOp.arg.fromCurrency)
    /\ lastOp' = [lastOp EXCEPT !.op = "convertBack"]
    /\ UNCHANGED <<state, storage, pc, pending, now, tz, failures, settings>>

----------------------------------------------------------------------------
(* Specification *)

\* localStorage before the first mount: empty, left by an earlier session,
\* or with a damaged subscriptions or profile string
StorageOf(subs, cur, prof) ==
    [k \in Keys |->
        CASE k = STORAGE_KEY -> subs
          [] k = CURRENCY_STORAGE_KEY -> cur
          [] k = PROFILE_STORAGE_KEY -> prof]

StoredProfile == StringifyObject([username |-> "Ann", picture |-> Null])

InitStorages ==
    { StorageOf(Absent, Absent, Absent),
      StorageOf(StringifyList(<<StoredSub>>), Raw("USD"), StoredProfile),
      StorageOf(Garbage, Raw("USD"), StoredProfile),
      StorageOf(StringifyList(<<StoredSub>>), Raw("USD"), Garbage) }

Init ==
    /\ state = initialState
    /\ storage \in InitStorages
    /\ pc = "mount"
    /\ pending = <<>>
    /\ now = 0
    /\ tz = 0
    /\ failures = 0
    /\ lastOp = NoOp
    /\ result = NoResult
    /\ settings = SettingsClosed

\* The life of the provider: mount, load, the store's actions with their
\* saves, reload, all within one instant of the clock and with one random
\* suffix, so the records added here share an id.  The list operations are
\* varied further, with ids that differ and over time, under SpecCrud.
Next ==
    \/ MountLoadEffects
    \/ MountSaveEffects
    \/ Render
    \/ Reload
    \/ addSubscription(Netflix, 0)
    \/ \E id \in Ids(state.subscriptions) \cup {UnknownId} :
          updateSubscription(id, [isActive |-> FALSE])
    \/ \E id \in Ids(state.subscriptions) \cup {UnknownId} :
          deleteSubscription(id)
    \/ \E currency \in Currencies : setCurrency(currency)
    \/ \E profile \in Profiles : setProfile(profile)
    \/ \E type \in UnrecognisedTypes : dispatchUnrecognised(type)

Spec == Init /\ [][Next]_vars

\* The list operations over time, from the state the provider is in after
\* it has mounted on an empty localStorage.  The setItem calls that throw have
\* thrown already (a currency change whose write threw, then changed back), so
\* every save of these behaviours is stored; thrown saves are followed under
\* Spec.
InitCrud ==
    /\ state = [initialState EXCEPT !.isLoading = FALSE]
    /\ storage = StorageOf(Absent, Raw(initialState.currency),
                           StringifyObject(initialState.profile))
    /\ pc = "ready"
    /\ pending = <<>>
    /\ now = 0
    /\ tz = 0
    /\ failures = MaxFailures
    /\ lastOp = NoOp
    /\ result = NoResult
    /\ settings = SettingsClosed

NextCrud ==
    \/ \E subscription \in AddInputs, r \in RandomSuffixes :
          addSubscription(subscription, r)
    \/ \E id \in Ids(state.subscriptions),
          updates \in Updates(state.subscriptions) :
          updateSubscription(id, updates)
    \/ updateSubscription(UnknownId, [isActive |-> FALSE, updatedAt |-> -5])
    \/ \E id \in Ids(state.subscriptions) \cup {UnknownId} :
          deleteSubscription(id)
    \/ Tick

SpecCrud == InitCrud /\ [][NextCrud]_vars

\* The queries, applied to the lists that addSubscription can build, at
\* every time of day and in timezones behind, at and ahead of UTC.
QueryInputs ==
    { [Netflix EXCEPT !.nextBillDate = 0],
      [name |-> "Gym", cost |-> 120, billingCycle |-> "yearly",
       category |-> "fitness", startDate |-> 0, nextBillDate |-> 7,
       isActive |-> TRUE, currency |-> "USD"],
      [News EXCEPT !.nextBillDate = 1],
      [name |-> "Cloud", cost |-> 9, billingCycle |-> "quarterly",
       category |-> "cloud", startDate |-> 0, nextBillDate |-> 8,
       isActive |-> TRUE, currency |-> "IDR"],
      [name |-> "Domain", cost |-> 15, billingCycle |-> "monthly",
       category |-> "software", startDate |-> -1, nextBillDate |-> -1,
       isActive |-> TRUE],
      [name |-> "Course", cost |-> 120, billingCycle |-> "yearly",
       category |-> "education", startDate |-> 0, nextBillDate |-> 10,
       isActive |-> TRUE, currency |-> "USD"] }

\* the lists of n records added, one per instant, before instant 0
QueryLists(n) ==
    { [i \in 1 .. n |-> NewSubscription(f[i], i - 10, 0)] :
        f \in [1 .. n -> QueryInputs] }

Days == {1, 7}

InitQuery ==
    /\ \E n \in 0 .. MaxQuery : \E list \in QueryLists(n) :
        \E currency \in Currencies :
        /\ state = [initialState EXCEPT !.subscriptions = list,
                                        !.currency = currency,
                                        !.isLoading = FALSE]
        /\ storage = StorageOf(IF n = 0 THEN Absent ELSE StringifyList(list),
                               Raw(currency),
                               StringifyObject(initialState.profile))
    /\ pc = "ready"
    /\ pending = <<>>
    /\ now = 0
    /\ tz \in Timezones
    /\ failures = 0
    /\ lastOp = NoOp
    /\ result = NoResult
    /\ settings = SettingsClosed

NextQuery ==
    \/ \E days \in Days : GetUpcomingSubscriptions(days)
    \/ GetTotalMonthlySpend
    \/ DashboardTotalMonthlySpend
    \/ Tick

SpecQuery == InitQuery /\ [][NextQuery]_vars

\* The detail modal, given each record of the lists of the queries (active
\* and cancelled ones) as its subscription.
InitModal ==
    /\ \E n \in 0 .. MaxQuery : \E list \in QueryLists(n) :
        /\ state = [initialState EXCEPT !.subscriptions = list,
                                        !.isLoading = FALSE]
        /\ storage = StorageOf(IF n = 0 THEN Absent ELSE StringifyList(list),
                               Raw(initialState.currency),
                               StringifyObject(initialState.profile))
    /\ pc = "ready"
    /\ pending = <<>>
    /\ now = 0
    /\ tz = 0
    /\ failures = MaxFailures
    /\ lastOp = NoOp
    /\ result = NoResult
    /\ settings = SettingsClosed

NextModal ==
    \/ \E i \in 1 .. MaxQuery : MarkAsCancelled(i)
    \/ \E i \in 1 .. MaxQuery : ReactivateSubscription(i)
    \/ Tick

SpecModal == InitModal /\ [][NextModal]_vars

\* The helpers, applied to arguments drawn from the input sets, at every
\* instant and in every timezone.
InitHelpers ==
    /\ state = [initialState EXCEPT !.isLoading = FALSE]
    /\ storage = StorageOf(Absent, Raw(initialState.currency),
                           StringifyObject(initialState.profile))
    /\ pc = "ready"
    /\ pending = <<>>
    /\ now = 0
    /\ tz \in Timezones
    /\ failures = 0
    /\ lastOp = NoOp
    /\ result = NoResult
    /\ settings = SettingsClosed

NextHelpers ==
    \/ \E cost \in Amounts, billingCycle \in BillingCycles :
          GetMonthlyCost(cost, billingCycle)
    \/ \E amount \in Amounts, fromCurrency, toCurrency \in CurrencyCodes :
          ConvertCurrency(amount, fromCurrency, toCurrency)
    \/ ConvertBack
    \/ \E dateStr \in DateStrings : GetDaysUntilDue(dateStr)
    \/ \E dateStr \in DateStrings : FormatRelativeDate(dateStr)
    \/ Tick

SpecHelpers == InitHelpers /\ [][NextHelpers]_vars

\* The SettingsPage next to the store, from the state after the provider
\* has mounted on the storage of an earlier session; no setItem call throws.
Usernames == {"", "Ann", "Bob"}
Pictures == {"data:image", "data:photo"}

InitSettings ==
    /\ state = [initialState EXCEPT
                    !.isLoading = FALSE,
                    !.profile = [username |-> "Ann", picture |-> Null]]
    /\ storage = StorageOf(Absent, Raw(initialState.currency), StoredProfile)
    /\ pc = "ready"
    /\ pending = <<>>
    /\ now = 0
    /\ tz = 0
    /\ failures = MaxFailures
    /\ lastOp = NoOp
    /\ result = NoResult
    /\ settings = SettingsClosed

NextSettings ==
    \/ OpenSettings
    \/ CloseSettings
    \/ \E editUsername \in Usernames : handleUsernameSave(editUsername)
    \/ \E picture \in Pictures : handleProfilePictureChange(picture)
    \/ \E profile \in Profiles : setProfile(profile)
    \/ \E currency \in Currencies : setCurrency(currency)
    \/ Tick

SpecSettings == InitSettings /\ [][NextSettings]_vars

----------------------------------------------------------------------------
(* Properties *)

Subs == state.subscriptions

\* the local calendar day at the instant of the last step
Today == LocalDay(now)

\* C1: getUpcomingSubscriptions(7) never returns an inactive subscription,
\* nor one whose nextBillDate is before today or more than 7 days after
\* today.  (The code does not filter on isActive.)
C1_UpcomingActiveInWindow ==
    (lastOp.op = "getUpcomingSubscriptions" /\ lastOp.arg = 7) =>
        \A i \in DOMAIN result :
            /\ result[i].isActive
            /\ result[i].nextBillDate >= Today
            /\ result[i].nextBillDate <= Today + 7

ChangeOps == {"add", "update", "delete", "setCurrency", "setProfile"}

ChangeKey(op) ==
    CASE op \in {"add", "update", "delete"} -> STORAGE_KEY
      [] op = "setCurrency" -> CURRENCY_STORAGE_KEY
      [] op = "setProfile" -> PROFILE_STORAGE_KEY

Serialised(s, k) ==
    CASE k = STORAGE_KEY -> StringifyList(s.subscriptions)
      [] k = CURRENCY_STORAGE_KEY -> Raw(s.currency)
      [] k = PROFILE_STORAGE_KEY -> StringifyObject(s.profile)

\* the step is one of the five operations and changes its collection
IsChange ==
    /\ lastOp'.op \in ChangeOps
    /\ CASE ChangeKey(lastOp'.op) = STORAGE_KEY ->
                state'.subscriptions # state.subscriptions
          [] ChangeKey(lastOp'.op) = CURRENCY_STORAGE_KEY ->
                state'.currency # state.currency
          [] ChangeKey(lastOp'.op) = PROFILE_STORAGE_KEY ->
                state'.profile # state.profile

\* the step calls setItem once, on key k with the serialisation of the new
\* in-memory value, and the key holds that value if the call succeeded
WritesFullValue(k) ==
    /\ Len(lastOp'.writes) = 1
    /\ lastOp'.writes[1].key = k
    /\ lastOp'.writes[1].value = Serialised(state', k)
    /\ lastOp'.writes[1].ok => storage'[k] = Serialised(state', k)

C3_NoEmptyListWritten ==
    [][/\ \A i \in DOMAIN lastOp'.writes :
            lastOp'.writes[i].key = STORAGE_KEY =>
                /\ Len(state'.subscriptions) > 0
                /\ Len(lastOp'.writes[i].value.val) > 0
       /\ lastOp'.op \in {"load", "mountSave", "render"} =>
            storage'[STORAGE_KEY] = storage[STORAGE_KEY]]_vars

\* between mount and load: the save effects have run on the empty initial
\* list while the key holds a list saved earlier
C3_Witness ==
    /\ pc = "render"
    /\ lastOp.op = "mountSave"
    /\ Len(Subs) = 0
    /\ storage[STORAGE_KEY].kind = "json"
    /\ Len(storage[STORAGE_KEY].val) > 0

\* C4: updateSubscription with an id that matches no record leaves the
\* list equal to the list before the call.
C4_UpdateUnknownId ==
    [][(lastOp'.op = "update" /\ lastOp'.id \notin Ids(Subs)) =>
            state'.subscriptions = Subs]_vars

C4_Witness ==
    /\ lastOp.op = "update"
    /\ lastOp.id \notin Ids(Subs)
    /\ Len(Subs) = 2
    /\ \E i \in DOMAIN Subs : Subs[i].updatedAt < now

\* C5: from every list, addSubscription(input) followed by
\* deleteSubscription of the id given to the new record yields the list
\* again.
C5_AddThenDelete ==
    pc = "ready" =>
        \A subscription \in AddInputs, r \in RandomSuffixes :
            LET new == NewSubscription(subscription, now, r)
                added == appReducer(state, [type |-> "ADD_SUBSCRIPTION",
                                            payload |-> new], now)
                deleted == appReducer(added, [type |-> "DELETE_SUBSCRIPTION",
                                              payload |-> new.id], now)
            IN deleted.subscriptions = Subs

\* C6: the ids of the records of the list are pairwise distinct.
C6_IdsDistinct ==
    \A i, j \in DOMAIN Subs : i # j => Subs[i].id # Subs[j].id

\* C7: no updateSubscription call changes the id of a record.
C7_IdImmutable ==
    [][lastOp'.op = "update" =>
        /\ Len(state'.subscriptions) = Len(Subs)
        /\ \A i \in DOMAIN Subs : state'.subscriptions[i].id = Subs[i].id]_vars

\* C8: getUpcomingSubscriptions(w) returns every active subscription dated
\* from today to today+w inclusive, none dated after today+w, and of two
\* subscriptions dated today and today+10 exactly the first when w = 7.
C8_UpcomingWindowInclusive ==
    lastOp.op = "getUpcomingSubscriptions" =>
        LET w == lastOp.arg
        IN /\ \A i \in DOMAIN Subs :
                (Subs[i].isActive /\ Subs[i].nextBillDate \in Today .. Today + w)
                    => \E j \in DOMAIN result : result[j] = Subs[i]
           /\ \A j \in DOMAIN result : result[j].nextBillDate <= Today + w
           /\ ( /\ w = 7
                /\ Len(Subs) = 2
                /\ Subs[1].nextBillDate = Today
                /\ Subs[2].nextBillDate = Today + 10 )
                    => result = <<Subs[1]>>

\* C9: the list getUpcomingSubscriptions returns is ascending by
\* nextBillDate, and the call leaves the stored list as it was.
C9_UpcomingSorted ==
    [][lastOp'.op = "getUpcomingSubscriptions" =>
        /\ \A i \in 1 .. Len(result') - 1 :
                result'[i].nextBillDate <= result'[i + 1].nextBillDate
        /\ state'.subscriptions = Subs]_vars

\* two records are returned in the order opposite to their order in the list
C9_Witness ==
    /\ lastOp.op = "getUpcomingSubscriptions"
    /\ Len(result) = 2
    /\ Len(Subs) = 2
    /\ Subs[1].nextBillDate > Subs[2].nextBillDate
    /\ result = <<Subs[2], Subs[1]>>

\* monthlyEquivalent(cost, cycle) as the specification defines it
MonthlyEquivalent(cost, cycle) ==
    CASE cycle = "weekly" -> Rat(cost * 52, 12)
      [] cycle = "monthly" -> Num(cost)
      [] cycle = "quarterly" -> Rat(cost * 4, 12)
      [] cycle = "yearly" -> Rat(cost, 12)
      [] OTHER -> Num(cost)

RECURSIVE SumMonthly(_, _)
SumMonthly(list, indices) ==
    IF indices = {} THEN Num(0)
    ELSE LET i == CHOOSE i \in indices : TRUE
         IN RatAdd(MonthlyEquivalent(list[i].cost, list[i].billingCycle),
                   SumMonthly(list, indices \ {i}))

WithoutCurrency(list) ==
    [i \in DOMAIN list |->
        [f \in DOMAIN list[i] \ {"currency"} |-> list[i][f]]]

\* C10: getTotalMonthlySpend() is the sum of monthlyEquivalent(cost, cycle)
\* over exactly the active subscriptions; it depends neither on the active
\* currency nor on the currency of any subscription; after one active
\* monthly subscription of cost 15 is added to the empty list it is 15.
C10_TotalMonthlySpend ==
    lastOp.op = "getTotalMonthlySpend" =>
        /\ result = SumMonthly(Subs, {i \in DOMAIN Subs : Subs[i].isActive})
        /\ \A currency \in Currencies \cup {"XXX"} :
              getTotalMonthlySpend(
                  [state EXCEPT !.currency = currency,
                                !.subscriptions = WithoutCurrency(@)]) = result
        /\ getTotalMonthlySpend(
              appReducer([initialState EXCEPT !.isLoading = FALSE],
                         [type |-> "ADD_SUBSCRIPTION",
                          payload |-> NewSubscription(Netflix, now, 0)],
                         now)) = Num(15)

\* an inactive record is left out, and an active one in another currency
\* than the active currency is counted unconverted
C10_Witness ==
    /\ lastOp.op = "getTotalMonthlySpend"
    /\ \E i \in DOMAIN Subs : ~Subs[i].isActive
    /\ \E i \in DOMAIN Subs :
          /\ Subs[i].isActive
          /\ "currency" \in DOMAIN Subs[i]
          /\ Subs[i].currency # state.currency
    /\ result.n > 0

\* the fields of the state other than the list
Frame(s) == [f \in DOMAIN s \ {"subscriptions"} |-> s[f]]

\* the k-th smallest element of a set of indices
Nth(indices, k) ==
    CHOOSE i \in indices : Cardinality({j \in indices : j <= i}) = k

\* C11: deleteSubscription(id) removes the records whose id is id and keeps
\* every other record, unchanged and in the same relative order; when no
\* record has that id the list is unchanged; currency, profile, loading flag
\* and error are unchanged in both cases.
C11_DeleteRemovesMatching ==
    [][lastOp'.op = "delete" =>
        LET id == lastOp'.id
            kept == {i \in DOMAIN Subs : Subs[i].id # id}
        IN /\ Len(state'.subscriptions) = Cardinality(kept)
           /\ \A k \in DOMAIN state'.subscriptions :
                 state'.subscriptions[k] = Subs[Nth(kept, k)]
           /\ id \notin Ids(Subs) => state'.subscriptions = Subs
           /\ Frame(state') = Frame(state)
           /\ pc' = pc]_vars

\* a record has been deleted from in front of another, which remains
C11_Witness ==
    /\ lastOp.op = "delete"
    /\ lastOp.id # UnknownId
    /\ lastOp.id \notin Ids(Subs)
    /\ Len(Subs) = 1
    /\ Subs[1].createdAt > lastOp.id[1]

\* the records are in the order of their insertion (createdAt is the instant
\* of the insertion and no operation of these behaviours changes it)
InInsertionOrder(list) ==
    \A i, j \in DOMAIN list : i < j => list[i].createdAt <= list[j].createdAt

\* C12: addSubscription places the new record at the end of the list and
\* leaves the existing records unchanged and in their order; after every
\* add and every delete the list is in the order of insertion of its
\* records.
C12_AddAppends ==
    [][/\ lastOp'.op = "add" =>
            /\ Len(state'.subscriptions) = Len(Subs) + 1
            /\ SubSeq(state'.subscriptions, 1, Len(Subs)) = Subs
            /\ state'.subscriptions[Len(Subs) + 1] = lastOp'.arg
            /\ lastOp'.arg.id = lastOp'.id
            /\ lastOp'.arg.createdAt = now
       /\ lastOp'.op \in {"add", "delete"} =>
            InInsertionOrder(state'.subscriptions)]_vars

\* a record has been added behind one inserted at an earlier instant
C12_Witness ==
    /\ lastOp.op = "add"
    /\ Len(Subs) = 2
    /\ Subs[2] = lastOp.arg
    /\ Subs[1].createdAt < Subs[2].createdAt

\* C13: updateSubscription(id, partialFields) sets, on every record whose id
\* is id, the fields of partialFields to the values given and updatedAt to
\* the current time, also when partialFields carries an updatedAt; the other
\* fields of the record, its position and every other record are unchanged.
C13_UpdateMerges ==
    [][(lastOp'.op = "update" /\ lastOp'.id \in Ids(Subs)) =>
        LET id == lastOp'.id
            updates == lastOp'.arg.updates
            new == state'.subscriptions
        IN /\ Len(new) = Len(Subs)
           /\ \A i \in DOMAIN Subs :
                 IF Subs[i].id = id
                 THEN /\ DOMAIN new[i] = DOMAIN Subs[i] \cup DOMAIN updates
                      /\ \A f \in DOMAIN updates \ {"updatedAt"} :
                            new[i][f] = updates[f]
                      /\ new[i].updatedAt = now
                      /\ \A f \in DOMAIN Subs[i] \
                                    (DOMAIN updates \cup {"updatedAt"}) :
                            new[i][f] = Subs[i][f]
                 ELSE new[i] = Subs[i]
           /\ Frame(state') = Frame(state)]_vars

\* a record created earlier has been updated with fields that carry a stale
\* updatedAt, next to a record that keeps its earlier timestamp
C13_Witness ==
    /\ lastOp.op = "update"
    /\ "updatedAt" \in DOMAIN lastOp.arg.updates
    /\ lastOp.arg.updates.updatedAt < now
    /\ Len(Subs) = 2
    /\ \E i, j \in DOMAIN Subs :
          /\ Subs[i].id = lastOp.id
          /\ Subs[i].createdAt < now
          /\ Subs[i].updatedAt = now
          /\ ~Subs[i].isActive
          /\ Subs[j].id # lastOp.id
          /\ Subs[j].updatedAt < now

\* C14: setCurrency(code) makes code the active currency and changes nothing
\* else: the list (every record's cost and currency, the order), the
\* profile, the loading flag and the error are as before.
C14_SetCurrencyFrame ==
    [][lastOp'.op = "setCurrency" =>
        /\ state'.currency = lastOp'.arg
        /\ state'.subscriptions = Subs
        /\ state'.profile = state.profile
        /\ state'.isLoading = state.isLoading
        /\ state'.error = state.error]_vars

\* the active currency has been changed away from the currency of a record
C14_Witness ==
    /\ lastOp.op = "setCurrency"
    /\ lastOp.arg = "USD"
    /\ state.currency = "USD"
    /\ \E i \in DOMAIN Subs :
          /\ "currency" \in DOMAIN Subs[i]
          /\ Subs[i].currency = "IDR"
          /\ Subs[i].cost = StoredSub.cost
    /\ \E i \in DOMAIN Subs : "currency" \notin DOMAIN Subs[i]

\* the strings the load effects of the last mount read
Read == lastOp.arg

Unparseable(s) == s.kind = "garbage"

\* the state holds what the string stored under key k says
Loaded(k) ==
    CASE k = STORAGE_KEY ->
            Read[k].kind = "json" => state.subscriptions = Read[k].val
      [] k = CURRENCY_STORAGE_KEY ->
            Read[k].kind = "raw" => state.currency = Read[k].val
      [] k = PROFILE_STORAGE_KEY ->
            Read[k].kind = "json" => state.profile = Read[k].val

\* C15: after the mount has loaded, when the stored subscriptions string
\* does not parse the state holds the stored currency and profile, when the
\* stored profile string does not parse the state holds the stored
\* subscriptions and currency, and in both cases the loading flag is false.
C15_KeysLoadIndependently ==
    lastOp.op = "render" =>
        /\ Unparseable(Read[STORAGE_KEY]) =>
              /\ Loaded(CURRENCY_STORAGE_KEY)
              /\ Loaded(PROFILE_STORAGE_KEY)
              /\ ~state.isLoading
        /\ Unparseable(Read[PROFILE_STORAGE_KEY]) =>
              /\ Loaded(STORAGE_KEY)
              /\ Loaded(CURRENCY_STORAGE_KEY)
              /\ ~state.isLoading
        /\ pc = "ready"

\* the subscriptions string did not parse; currency and profile are loaded
C15_Witness ==
    /\ lastOp.op = "render"
    /\ Unparseable(Read[STORAGE_KEY])
    /\ Read[CURRENCY_STORAGE_KEY] = Raw("USD")
    /\ Read[PROFILE_STORAGE_KEY] = StoredProfile
    /\ state.currency = "USD"
    /\ state.profile.username = "Ann"
    /\ state.error = "Failed to load subscriptions"
    /\ ~state.isLoading

\* C16: after the mount has loaded, a key that was absent has its default
\* in the state: the empty list, "IDR", {username: "User", picture: null}.
C16_DefaultsWhenAbsent ==
    lastOp.op = "render" =>
        /\ Read[STORAGE_KEY] = Absent => state.subscriptions = <<>>
        /\ Read[CURRENCY_STORAGE_KEY] = Absent => state.currency = "IDR"
        /\ Read[PROFILE_STORAGE_KEY] = Absent =>
              state.profile = [username |-> "User", picture |-> Null]

\* the first run: all three keys were absent
C16_Witness ==
    /\ lastOp.op = "render"
    /\ \A k \in Keys : Read[k] = Absent
    /\ state.subscriptions = <<>>
    /\ state.currency = "IDR"
    /\ state.profile.username = "User"
    /\ ~state.isLoading

\* the state after the step holds the change the step's operation makes
Applied ==
    LET new == state'.subscriptions
    IN CASE lastOp'.op = "add" ->
                new = Subs \o <<lastOp'.arg>>
         [] lastOp'.op = "update" ->
                /\ Len(new) = Len(Subs)
                /\ \A i \in DOMAIN Subs :
                      IF Subs[i].id = lastOp'.id
                      THEN \A f \in DOMAIN lastOp'.arg.updates :
                              new[i][f] = lastOp'.arg.updates[f]
                      ELSE new[i] = Subs[i]
         [] lastOp'.op = "delete" ->
                /\ lastOp'.id \notin Ids(new)
                /\ Len(new) =
                      Cardinality({i \in DOMAIN Subs : Subs[i].id # lastOp'.id})
         [] lastOp'.op = "setCurrency" -> state'.currency = lastOp'.arg
         [] lastOp'.op = "setProfile" -> state'.profile = lastOp'.arg
         [] lastOp'.op = "mountSave" -> state' = state
         [] lastOp'.op = "render" -> ~state'.isLoading

\* C17: whether or not a setItem call of a step throws, the state after the
\* step holds the step's change (no rollback) and the provider stays in
\* operation; a call that throws leaves the stored string as it was, no key
\* is written twice in a step (no retry), and a call that does not throw,
\* also after earlier ones have thrown, stores its value.
C17_WriteFailureIgnored ==
    [][lastOp'.op \in ChangeOps \cup {"mountSave", "render"} =>
        LET writes == lastOp'.writes
        IN /\ Applied
           /\ pc' \in {"render", "ready"}
           /\ \A i, j \in DOMAIN writes :
                 writes[i].key = writes[j].key => i = j
           /\ \A i \in DOMAIN writes :
                 storage'[writes[i].key] =
                     IF writes[i].ok THEN writes[i].value
                     ELSE storage[writes[i].key]
           /\ \A k \in Keys :
                 (\A i \in DOMAIN writes : writes[i].key # k) =>
                     storage'[k] = storage[k]]_vars

\* the write of the currency was rejected earlier: the state keeps the
\* currency, the key keeps its old string, and a later add is applied and
\* stored
C17_Witness ==
    /\ lastOp.op = "add"
    /\ failures > 0
    /\ state.currency = "USD"
    /\ storage[CURRENCY_STORAGE_KEY] = Raw("IDR")
    /\ Len(lastOp.writes) = 1
    /\ lastOp.writes[1].ok
    /\ Subs # <<>>
    /\ storage[STORAGE_KEY] = StringifyList(Subs)

C19_MonthlyEquivalent ==
    lastOp.op = "getMonthlyCost" =>
        /\ result = MonthlyEquivalent(lastOp.arg.cost, lastOp.arg.billingCycle)
        /\ (lastOp.arg.billingCycle = "yearly" /\ lastOp.arg.cost = 120) =>
              result = Num(10)
        /\ lastOp.arg.billingCycle \notin
                {"weekly", "monthly", "quarterly", "yearly"} =>
              result = Num(lastOp.arg.cost)

\* a yearly cost whose monthly equivalent, 5/4, is not a whole number
C19_Witness ==
    /\ lastOp.op = "getMonthlyCost"
    /\ lastOp.arg.billingCycle = "yearly"
    /\ lastOp.arg.cost = 15
    /\ result = [n |-> 5, d |-> 4]

\* C20: convertCurrency(amount, X, X) is amount, for the codes of the
\* exchange-rate table and for codes that are not in it.
C20_ConvertSameCurrency ==
    (lastOp.op = "convertCurrency"
        /\ lastOp.arg.fromCurrency = lastOp.arg.toCurrency) =>
            result = Num(lastOp.arg.amount)

\* an amount has been converted from a code outside the table to itself
C20_Witness ==
    /\ lastOp.op = "convertCurrency"
    /\ lastOp.arg.fromCurrency \notin DOMAIN EXCHANGE_RATES
    /\ lastOp.arg.toCurrency = lastOp.arg.fromCurrency
    /\ lastOp.arg.amount = 15
    /\ result = Num(15)

\* C21: for two codes A and B of the exchange-rate table,
\* convertCurrency(convertCurrency(amount, A, B), B, A) is amount.
C21_ConvertRoundTrip ==
    (lastOp.op = "convertBack"
        /\ lastOp.arg.fromCurrency \in DOMAIN EXCHANGE_RATES
        /\ lastOp.arg.toCurrency \in DOMAIN EXCHANGE_RATES) =>
            result = Num(lastOp.arg.amount)

\* an amount has gone from IDR to EUR, whose rate is not whole, and back
C21_Witness ==
    /\ lastOp.op = "convertBack"
    /\ lastOp.arg.fromCurrency = "IDR"
    /\ lastOp.arg.toCurrency = "EUR"
    /\ lastOp.arg.amount = 15
    /\ result = Num(15)

\* rate(c) of the specification: the rate of the table, 1 for any other code
TableRate(code) ==
    IF code \in DOMAIN EXCHANGE_RATES THEN EXCHANGE_RATES[code] ELSE Num(1)

\* C22: for from # to, convertCurrency(amount, from, to) is
\* amount / rate(from) * rate(to), where rate(c) is 1 for every code that is
\* not in the table.  (A code that names an inherited property of the table
\* object gets that property, not 1, and the result is NaN.)
C22_ConvertByTableRates ==
    (lastOp.op = "convertCurrency"
        /\ lastOp.arg.fromCurrency # lastOp.arg.toCurrency) =>
            LET from == TableRate(lastOp.arg.fromCurrency)
                to == TableRate(lastOp.arg.toCurrency)
            IN result = Rat(lastOp.arg.amount * from.d * to.n, from.n * to.d)

\* C23: getDaysUntilDue(date) is the number of calendar days from the
\* current calendar date to the date the string names, at every time of
\* day: 1 for tomorrow's date, 0 for today's.  (West of UTC the code counts
\* to the day before the one the string names.)
C23_DaysUntilCalendar ==
    lastOp.op = "getDaysUntilDue" => result = lastOp.arg - Today

\* formatRelative of the specification, for a calendar-day difference d
FormatRelative(dateStr, d) ==
    CASE d = 0 -> [text |-> "Today", n |-> 0]
      [] d = 1 -> [text |-> "Tomorrow", n |-> 0]
      [] d = -1 -> [text |-> "Yesterday", n |-> 0]
      [] d <= -2 -> [text |-> "days ago", n |-> -d]
      [] d >= 2 /\ d <= 7 -> [text |-> "in days", n |-> d]
      [] d >= 8 -> [text |-> "date", n |-> dateStr]

\* C24: formatRelativeDate(date) is "Today", "Tomorrow", "Yesterday",
\* "N days ago", "in N days" or the date itself according to the
\* calendar-day difference between date and today.  (West of UTC the code
\* takes the difference to the day before the one the string names.)
C24_FormatRelative ==
    lastOp.op = "formatRelativeDate" =>
        result = FormatRelative(lastOp.arg, lastOp.arg - Today)

\* C25: when a record has been deleted (and no write was rejected) and the
\* page is then reloaded, the list the store loads does not hold the
\* record.  (Deleting the last record writes nothing, so the reload loads it
\* again.)
C25_DeletionDurable ==
    (lastOp.op = "render" /\ lastOp.id # UnknownId) =>
        lastOp.id \notin Ids(Subs)

\* C26: from the mount to the end of loading, a currency and a profile that
\* were stored before the mount are still what their keys hold, and after
\* loading they are the currency and the profile of the state.  (The save
\* effects of the mount commit write the defaults of the initial state
\* first.)
C26_InitKeepsSaved ==
    lastOp.op \in {"load", "mountSave", "render"} =>
        \A k \in {CURRENCY_STORAGE_KEY, PROFILE_STORAGE_KEY} :
            Read[k].kind \in {"raw", "json"} =>
                /\ storage[k] = Read[k]
                /\ lastOp.op = "render" => Loaded(k)

\* C27: after the SettingsPage has changed the username or the picture, the
\* profile of the store's state is the profile stored under the profile key.
\* (The page keeps a profile state of its own and writes the key itself; the
\* store's state is not told.)
C27_ProfileAgrees ==
    lastOp.op \in {"handleUsernameSave", "handleProfilePictureChange"} =>
        storage[PROFILE_STORAGE_KEY] = StringifyObject(state.profile)

\* C28: the loading flag is true from the initial state until the load of
\* the subscriptions has been reduced, is false from then on whether the
\* load succeeded, found no key or failed to parse, and stays false under
\* every addSubscription, updateSubscription, deleteSubscription,
\* setCurrency and setProfile.
C28_LoadingFlag ==
    /\ pc \in {"mount", "mounted", "render"} => state.isLoading
    /\ pc = "ready" => ~state.isLoading
    /\ lastOp.op \in ChangeOps \cup {"render"} => ~state.isLoading

\* a store operation has been applied after a load that failed to parse
C28_Witness ==
    /\ lastOp.op \in ChangeOps
    /\ state.error = "Failed to load subscriptions"
    /\ Subs # <<>>
    /\ ~state.isLoading

\* the currency a record counts in: its own, or the active one when it
\* carries none
CurrencyOf(sub, active) ==
    IF "currency" \in DOMAIN sub THEN sub.currency ELSE active

RECURSIVE SumConverted(_, _, _)
SumConverted(list, indices, active) ==
    IF indices = {} THEN Num(0)
    ELSE LET i == CHOOSE i \in indices : TRUE
         IN RatAdd(convertCurrency(
                       MonthlyEquivalent(list[i].cost, list[i].billingCycle),
                       CurrencyOf(list[i], active), active),
                   SumConverted(list, indices \ {i}, active))

ActiveIndices == {i \in DOMAIN Subs : Subs[i].isActive}

\* C29: the Dashboard's monthly total equals the store's
\* getTotalMonthlySpend() whenever every active subscription carries no
\* currency or the active one; in every state it equals the sum over the
\* active subscriptions of convertCurrency(monthly equivalent, the record's
\* currency, the active currency), a record without a currency counting as
\* already in the active currency.
C29_DashboardTotal ==
    lastOp.op = "totalMonthlySpend" =>
        /\ result = SumConverted(Subs, ActiveIndices, state.currency)
        /\ (\A i \in ActiveIndices :
                CurrencyOf(Subs[i], state.currency) = state.currency)
            => result = getTotalMonthlySpend(state)

\* the Dashboard has totalled an active record in another currency and an
\* active record without a currency, and its total differs from the store's
C29_Witness ==
    /\ lastOp.op = "totalMonthlySpend"
    /\ \E i \in ActiveIndices : CurrencyOf(Subs[i], state.currency) # state.currency
    /\ \E i \in ActiveIndices : "currency" \notin DOMAIN Subs[i]
    /\ result # getTotalMonthlySpend(state)

\* the Dashboard has totalled active records that are all in the active
\* currency, one of them carrying it explicitly
C29_WitnessSameCurrency ==
    /\ lastOp.op = "totalMonthlySpend"
    /\ \E i \in ActiveIndices : "currency" \in DOMAIN Subs[i]
    /\ \A i \in ActiveIndices :
           CurrencyOf(Subs[i], state.currency) = state.currency
    /\ result = getTotalMonthlySpend(state)

\* C30: in the detail modal, "Mark as Cancelled" on an active subscription
\* sets its isActive to false and "Reactivate Subscription" on an inactive
\* one sets its isActive to true; each changes no other field of that
\* record except updatedAt, and no other record.
C30_ModalActions ==
    [][lastOp'.op \in {"markAsCancelled", "reactivateSubscription"} =>
        LET new == state'.subscriptions
        IN /\ Len(new) = Len(Subs)
           /\ \A i \in DOMAIN Subs :
                 IF Subs[i].id = lastOp'.id
                 THEN /\ DOMAIN new[i] = DOMAIN Subs[i]
                      /\ new[i].isActive =
                            (lastOp'.op = "reactivateSubscription")
                      /\ \A f \in DOMAIN Subs[i] \ {"isActive", "updatedAt"} :
                            new[i][f] = Subs[i][f]
                 ELSE new[i] = Subs[i]]_vars

\* the part of C30 about "Mark as Cancelled" alone
C30_MarkAsCancelledOnly ==
    [][lastOp'.op = "markAsCancelled" =>
        LET new == state'.subscriptions
        IN /\ Len(new) = Len(Subs)
           /\ \A i \in DOMAIN Subs :
                 IF Subs[i].id = lastOp'.id
                 THEN /\ DOMAIN new[i] = DOMAIN Subs[i]
                      /\ ~new[i].isActive
                      /\ \A f \in DOMAIN Subs[i] \ {"isActive", "updatedAt"} :
                            new[i][f] = Subs[i][f]
                 ELSE new[i] = Subs[i]]_vars

====
